---- MODULE Spec2Model ----
(***************************************************************************)
(* Model of business-calculator.py: the two calculation functions          *)
(* calculate_monthly_metrics and calculate_annual_projection, and the      *)
(* dashboard script main that reads the sidebar inputs, calls both and     *)
(* builds the metric tiles, the profit-and-loss table and the cash-flow    *)
(* table.                                                                  *)
(*                                                                         *)
(* Numbers are exact rationals [n, d] in lowest terms (d > 0).  This is    *)
(* the arithmetic of the formulas over the reals; the binary rounding of   *)
(* Python floats is not modelled.  A division by zero yields the value     *)
(* DivZero, which every later operation propagates and which the calling   *)
(* action turns into the raised ZeroDivisionError.                         *)
(* Dicts are functions from key strings to numbers, held in a heap of      *)
(* objects addressed by references, so that aliasing and mutation of a     *)
(* dict passed as an argument are expressible.                             *)
(***************************************************************************)
EXTENDS Integers, Sequences, FiniteSets, TLC

VARIABLES
    args,        \* arguments of the latest calculate_monthly_metrics call
    heap,        \* live dict objects: reference -> dict
    monthly,     \* reference bound to the name monthly (or NULL)
    annual,      \* reference bound to the name annual (or NULL)
    tiles,       \* the six st.metric tiles shown by main (formatted values)
    results_df,  \* rows of the profit-and-loss table built by main
    cash_df,     \* rows of the cash-flow table built by main
    raised,      \* exception raised by the latest operation, or "none"
    last,        \* the operation that acted last
    log          \* recorded calls of a calling session (SpecCalls only)

vars == <<args, heap, monthly, annual, tiles, results_df, cash_df, raised, last, log>>

NULL == 0

----------------------------------------------------------------------------
(* Exact rational arithmetic *)

Abs(i) == IF i < 0 THEN -i ELSE i

RECURSIVE GCD(_, _)
GCD(a, b) == IF b = 0 THEN a ELSE GCD(b, a % b)

DivZero == [n |-> 0, d |-> 0]

IsErr(x) == x.d = 0

Norm(n, d) ==
    LET g == GCD(Abs(n), Abs(d))
        s == IF d < 0 THEN -1 ELSE 1
    IN [n |-> s * (n \div g), d |-> s * (d \div g)]

Rat(n, d) == Norm(n, d)

Num(i) == [n |-> i, d |-> 1]

Zero == Num(0)

RAdd(x, y) ==
    IF IsErr(x) \/ IsErr(y) THEN DivZero
    ELSE LET g == GCD(x.d, y.d)
             l == (x.d \div g) * y.d
         IN Norm(x.n * (l \div x.d) + y.n * (l \div y.d), l)

RNeg(x) == IF IsErr(x) THEN DivZero ELSE [n |-> -x.n, d |-> x.d]

RSub(x, y) == RAdd(x, RNeg(y))

RMul(x, y) ==
    IF IsErr(x) \/ IsErr(y) THEN DivZero
    ELSE LET a == Norm(x.n, y.d)
             b == Norm(y.n, x.d)
         IN [n |-> a.n * b.n, d |-> a.d * b.d]

RDiv(x, y) ==
    IF IsErr(x) \/ IsErr(y) \/ y.n = 0 THEN DivZero
    ELSE RMul(x, Norm(y.d, y.n))

\* sign of x - y: -1, 0 or 1
RCmp(x, y) ==
    LET g == GCD(x.d, y.d)
        l == x.n * (y.d \div g)
        r == y.n * (x.d \div g)
    IN IF l < r THEN -1 ELSE IF l = r THEN 0 ELSE 1

RGt(x, y) == RCmp(x, y) = 1
RGe(x, y) == RCmp(x, y) >= 0
RLe(x, y) == RCmp(x, y) <= 0
RLt(x, y) == RCmp(x, y) = -1

RECURSIVE Pow10(_)
Pow10(k) == IF k = 0 THEN 1 ELSE 10 * Pow10(k - 1)

\* format(x, ".kf"): x rounded to k decimals (ties to even), as the integer
\* number of units of 10^-k
Format(x, k) ==
    LET s == RMul(x, Num(Pow10(k)))
        q == s.n \div s.d
        r == s.n % s.d
    IN IF 2 * r > s.d THEN q + 1
       ELSE IF 2 * r < s.d THEN q
       ELSE IF q % 2 = 0 THEN q ELSE q + 1

----------------------------------------------------------------------------
(* Constants of the code *)

SHOPIFY_PLAN == 32
SEO == 200
DOMAIN_COST == Rat(125, 100)
FEE_RATE == Rat(29, 1000)
FEE_PER_ORDER == Rat(30, 100)
TAX_RATE == Rat(20, 100)
MONTHS == 12
PERCENT == 100

MonthlyKeys ==
    {"revenue", "orders", "purchase_cost", "shipping_total", "shopify_fees",
     "fixed_costs", "gross_margin", "net_margin", "gross_margin_rate",
     "marketing_ratio", "break_even"}

----------------------------------------------------------------------------
(* calculate_monthly_metrics *)

Orders(monthly_traffic, conversion_rate) ==
    RMul(monthly_traffic, RDiv(conversion_rate, Num(PERCENT)))

Revenue(orders, average_basket) == RMul(orders, average_basket)

PurchaseCost(revenue, purchase_price_ratio) ==
    RMul(revenue, RDiv(purchase_price_ratio, Num(PERCENT)))

ShippingTotal(orders, shipping_cost) == RMul(orders, shipping_cost)

\* mutant: the per-order fee forgotten
ShopifyFees_RateOnly(revenue, orders) == RMul(revenue, FEE_RATE)

ShopifyFees(revenue, orders) ==
    RAdd(RMul(revenue, FEE_RATE), RMul(orders, FEE_PER_ORDER))

\* mutant: the Domain entry missing from the dict
FixedCosts_NoDomain(marketing_budget) ==
    <<Num(SHOPIFY_PLAN), Num(SEO), marketing_budget>>

\* the dict fixed_costs, as its values in insertion order
FixedCosts(marketing_budget) ==
    <<Num(SHOPIFY_PLAN), Num(SEO), DOMAIN_COST, marketing_budget>>

\* sum(values): 0 + v1 + v2 + ...
RECURSIVE Sum(_)
Sum(values) ==
    IF values = <<>> THEN Zero
    ELSE RAdd(Sum(SubSeq(values, 1, Len(values) - 1)), values[Len(values)])

TotalFixedCosts(marketing_budget) == Sum(FixedCosts(marketing_budget))

GrossMargin(revenue, purchase_cost, shipping_total, shopify_fees) ==
    RSub(RSub(RSub(revenue, purchase_cost), shipping_total), shopify_fees)

NetMargin(gross_margin, total_fixed_costs) == RSub(gross_margin, total_fixed_costs)

\* mutant: the guard lets revenue = 0 through
GrossMarginRate_GuardGe(gross_margin, revenue) ==
    IF RGe(revenue, Zero)
    THEN RMul(RDiv(gross_margin, revenue), Num(PERCENT))
    ELSE Zero

GrossMarginRate(gross_margin, revenue) ==
    IF RGt(revenue, Zero)
    THEN RMul(RDiv(gross_margin, revenue), Num(PERCENT))
    ELSE Zero

\* mutant: a fraction instead of a percentage
MarketingRatio_Fraction(marketing_budget, revenue) ==
    IF RGt(revenue, Zero)
    THEN RDiv(marketing_budget, revenue)
    ELSE Zero

MarketingRatio(marketing_budget, revenue) ==
    IF RGt(revenue, Zero)
    THEN RMul(RDiv(marketing_budget, revenue), Num(PERCENT))
    ELSE Zero

\* mutant: the guard only excludes a zero rate
BreakEven_GuardNonZero(total_fixed_costs, gross_margin_rate) ==
    IF gross_margin_rate # Zero
    THEN RDiv(total_fixed_costs, RDiv(gross_margin_rate, Num(PERCENT)))
    ELSE Zero

\* mutant: the rate used as a fraction without dividing by 100
BreakEven_NoPercent(total_fixed_costs, gross_margin_rate) ==
    IF RGt(gross_margin_rate, Zero)
    THEN RDiv(total_fixed_costs, gross_margin_rate)
    ELSE Zero

BreakEven(total_fixed_costs, gross_margin_rate) ==
    IF RGt(gross_margin_rate, Zero)
    THEN RDiv(total_fixed_costs, RDiv(gross_margin_rate, Num(PERCENT)))
    ELSE Zero

\* the returned dict; a DivZero field stands for the ZeroDivisionError raised
\* while computing it
calculate_monthly_metrics(a) ==
    LET orders == Orders(a.monthly_traffic, a.conversion_rate)
        revenue == Revenue(orders, a.average_basket)
        purchase_cost == PurchaseCost(revenue, a.purchase_price_ratio)
        shipping_total == ShippingTotal(orders, a.shipping_cost)
        shopify_fees == ShopifyFees(revenue, orders)
        total_fixed_costs == TotalFixedCosts(a.marketing_budget)
        gross_margin == GrossMargin(revenue, purchase_cost, shipping_total, shopify_fees)
        net_margin == NetMargin(gross_margin, total_fixed_costs)
        gross_margin_rate == GrossMarginRate(gross_margin, revenue)
        marketing_ratio == MarketingRatio(a.marketing_budget, revenue)
        break_even == BreakEven(total_fixed_costs, gross_margin_rate)
    IN [revenue |-> revenue,
        orders |-> orders,
        purchase_cost |-> purchase_cost,
        shipping_total |-> shipping_total,
        shopify_fees |-> shopify_fees,
        fixed_costs |-> total_fixed_costs,
        gross_margin |-> gross_margin,
        net_margin |-> net_margin,
        gross_margin_rate |-> gross_margin_rate,
        marketing_ratio |-> marketing_ratio,
        break_even |-> break_even]

Raises(dict) == \E k \in DOMAIN dict : IsErr(dict[k])

----------------------------------------------------------------------------
(* calculate_annual_projection *)

\* mutant: the two percentages left unscaled
Scale_CurrencyOnly(monthly_metrics) ==
    [k \in DOMAIN monthly_metrics |->
        IF k \in {"gross_margin_rate", "marketing_ratio"}
        THEN monthly_metrics[k]
        ELSE RMul(monthly_metrics[k], Num(MONTHS))]

\* {k: v * 12 for k, v in monthly_metrics.items()}
Scale(monthly_metrics) ==
    [k \in DOMAIN monthly_metrics |-> RMul(monthly_metrics[k], Num(MONTHS))]

\* max(0, x): the first maximal argument
Max0(x) == IF RGt(x, Zero) THEN x ELSE Zero

\* mutant: no floor at 0
Taxes_NoFloor(annual_net_margin) == RMul(annual_net_margin, TAX_RATE)

Taxes(annual_net_margin) == Max0(RMul(annual_net_margin, TAX_RATE))

NetProfit(annual_net_margin, taxes) == RSub(annual_net_margin, taxes)

\* annual[key] = value
SetItem(dict, key, value) ==
    [k \in DOMAIN dict \cup {key} |-> IF k = key THEN value ELSE dict[k]]

\* the smallest reference not in use
NewRef(h) == CHOOSE r \in 1..(Cardinality(DOMAIN h) + 1) : r \notin DOMAIN h

\* a new object holding dict
Alloc(h, r, dict) == [x \in DOMAIN h \cup {r} |-> IF x = r THEN dict ELSE h[x]]

\* mutant: the argument scaled in place and returned
Comprehension_InPlace(h, ref) ==
    [heap |-> [h EXCEPT ![ref] = Scale(h[ref])], ret |-> ref]

\* annual = {...}: the comprehension builds a new dict object, which the
\* name annual then refers to; h[ref] is only read
Comprehension(h, ref) ==
    LET r == NewRef(h)
    IN [heap |-> Alloc(h, r, Scale(h[ref])), ret |-> r]

\* The call on the dict object ref in heap h: the heap after the call and the
\* reference returned.  The two item assignments write to the dict annual.
calculate_annual_projection(h, ref) ==
    LET c == Comprehension(h, ref)
        r == c.ret
        h1 == c.heap
        h2 == [h1 EXCEPT ![r] = SetItem(h1[r], "taxes", Taxes(h1[r]["net_margin"]))]
        h3 == [h2 EXCEPT ![r] = SetItem(h2[r], "net_profit",
                                        NetProfit(h2[r]["net_margin"], h2[r]["taxes"]))]
    IN [heap |-> h3, ret |-> r]

----------------------------------------------------------------------------
(* main: the dashboard script *)

\* the six st.metric tiles, formatted to 2, 0, 2, 1, 1 and 2 decimals
Tiles(m) ==
    [revenue |-> Format(m["revenue"], 2),
     orders |-> Format(m["orders"], 0),
     net_margin |-> Format(m["net_margin"], 2),
     gross_margin_rate |-> Format(m["gross_margin_rate"], 1),
     marketing_ratio |-> Format(m["marketing_ratio"], 1),
     break_even |-> Format(m["break_even"], 2)]

Row(poste, montant) == [poste |-> poste, montant |-> montant]

\* mutant: the cost lines not negated
ResultsRows_Unsigned(an) ==
    <<Row("Chiffre d'affaires", an["revenue"]),
      Row("Cout des marchandises", an["purchase_cost"]),
      Row("Frais de livraison", an["shipping_total"]),
      Row("Commissions Shopify", an["shopify_fees"]),
      Row("Charges fixes", an["fixed_costs"]),
      Row("Resultat d'exploitation", an["net_margin"]),
      Row("Impots (20%)", an["taxes"]),
      Row("Resultat net", an["net_profit"])>>

\* results_df: the profit-and-loss table
ResultsRows(an) ==
    <<Row("Chiffre d'affaires", an["revenue"]),
      Row("Cout des marchandises", RNeg(an["purchase_cost"])),
      Row("Frais de livraison", RNeg(an["shipping_total"])),
      Row("Commissions Shopify", RNeg(an["shopify_fees"])),
      Row("Charges fixes", RNeg(an["fixed_costs"])),
      Row("Resultat d'exploitation", an["net_margin"]),
      Row("Impots (20%)", RNeg(an["taxes"])),
      Row("Resultat net", an["net_profit"])>>

\* cash_df: the cash-flow table
CashRows(initial_capital, initial_stock, m, an) ==
    LET cash_m1 ==
            RSub(RSub(RSub(RSub(RSub(initial_capital, initial_stock), m["fixed_costs"]),
                           m["purchase_cost"]), m["shipping_total"]), m["shopify_fees"])
        annual_cash_in == RAdd(initial_capital, an["revenue"])
        annual_cash_out ==
            RAdd(RAdd(RAdd(RAdd(initial_stock, an["fixed_costs"]), an["purchase_cost"]),
                      an["shipping_total"]), an["shopify_fees"])
        final_balance == RSub(annual_cash_in, annual_cash_out)
    IN <<Row("Solde Mois 1", cash_m1),
         Row("Entrees annuelles", annual_cash_in),
         Row("Sorties annuelles", annual_cash_out),
         Row("Solde fin d'annee", final_balance)>>

----------------------------------------------------------------------------
(* Inputs *)

MaxTraffic == 2
MaxCalls == 4

\* values each sidebar widget of main can deliver (number_input clamps to
\* min_value and max_value); the defaults are among them
WidgetValues ==
    [monthly_traffic |-> {Num(500 * k) : k \in 0..MaxTraffic},
     conversion_rate |-> {Num(0), Num(2), Num(100)},
     average_basket |-> {Num(0), Num(80)},
     initial_capital |-> {Num(0), Num(10000)},
     initial_stock |-> {Num(0), Num(3000)},
     purchase_price_ratio |-> {Num(0), Num(40), Num(100)},
     shipping_cost |-> {Num(0), Num(6)},
     marketing_budget |-> {Num(0), Num(300)}]

\* arguments of a direct call of calculate_monthly_metrics, which checks
\* nothing: negative and above-100 values included
CallArgs ==
    [monthly_traffic : {Num(500 * k) : k \in 0..MaxTraffic} \cup {Num(-500)},
     conversion_rate : {Num(-2), Num(0), Num(2), Num(100)},
     average_basket : {Num(-80), Num(0), Num(80)},
     initial_capital : {Num(0), Num(10000)},
     initial_stock : {Num(3000)},
     purchase_price_ratio : {Num(0), Num(40), Num(100), Num(120)},
     shipping_cost : {Num(0), Num(6)},
     marketing_budget : {Num(-300), Num(0), Num(300)}]

\* arguments used by a recorded calling session
SessionArgs ==
    [monthly_traffic : {Num(0), Num(1000)},
     conversion_rate : {Num(2)},
     average_basket : {Num(80)},
     initial_capital : {Num(10000)},
     initial_stock : {Num(3000)},
     purchase_price_ratio : {Num(40), Num(100)},
     shipping_cost : {Num(6)},
     marketing_budget : {Num(300)}]

\* the defaults of the widgets of main
Example ==
    [monthly_traffic |-> Num(1000),
     conversion_rate |-> Num(2),
     average_basket |-> Num(80),
     initial_capital |-> Num(10000),
     initial_stock |-> Num(3000),
     purchase_price_ratio |-> Num(40),
     shipping_cost |-> Num(6),
     marketing_budget |-> Num(300)]

----------------------------------------------------------------------------
(* State machine *)

EmptyHeap == <<>>

\* the objects still referred to: garbage is dropped
Collect(h, live) == [r \in DOMAIN h \cap live |-> h[r]]

LogRefs(l) == {l[i].arg : i \in 1..Len(l)} \cup {l[i].ret : i \in 1..Len(l)}

Init ==
    /\ args = Example
    /\ heap = EmptyHeap
    /\ monthly = NULL
    /\ annual = NULL
    /\ tiles = <<>>
    /\ results_df = <<>>
    /\ cash_df = <<>>
    /\ raised = "none"
    /\ last = "init"
    /\ log = <<>>

\* One run of the script main with the widget values w: it starts from an
\* empty namespace, calls both functions and builds the tiles and tables.
Main(w) ==
    \E m \in {calculate_monthly_metrics(w)} :
    \E mref \in {NewRef(EmptyHeap)} :
    \E c \in {IF Raises(m) THEN [heap |-> EmptyHeap, ret |-> NULL]
              ELSE calculate_annual_projection(Alloc(EmptyHeap, mref, m), mref)} :
       /\ args' = w
       /\ last' = "main"
       /\ log' = <<>>
       /\ IF Raises(m)
          THEN /\ raised' = "ZeroDivisionError"
               /\ heap' = EmptyHeap
               /\ monthly' = NULL
               /\ annual' = NULL
               /\ tiles' = <<>>
               /\ results_df' = <<>>
               /\ cash_df' = <<>>
          ELSE /\ raised' = "none"
               /\ heap' = c.heap
               /\ monthly' = mref
               /\ annual' = c.ret
               /\ tiles' = Tiles(c.heap[mref])
               /\ results_df' = ResultsRows(c.heap[c.ret])
               /\ cash_df' = CashRows(w.initial_capital, w.initial_stock,
                                      c.heap[mref], c.heap[c.ret])

\* monthly = calculate_monthly_metrics(**a), called directly; a previous
\* projection is dropped.  With record, the call is appended to the log.
CallMonthly(a, record) ==
    \E m \in {calculate_monthly_metrics(a)} :
    \E r \in {NewRef(heap)} :
       /\ record => Len(log) < MaxCalls
       /\ args' = a
       /\ last' = "calculate_monthly_metrics"
       /\ annual' = NULL
       /\ UNCHANGED <<tiles, results_df, cash_df>>
       /\ IF Raises(m)
          THEN /\ raised' = "ZeroDivisionError"
               /\ monthly' = NULL
               /\ log' = log
               /\ heap' = Collect(heap, LogRefs(log'))
          ELSE /\ raised' = "none"
               /\ monthly' = r
               /\ log' = IF record
                         THEN Append(log, [fn |-> "calculate_monthly_metrics",
                                           in |-> a, arg |-> NULL,
                                           out |-> m, ret |-> r])
                         ELSE log
               /\ heap' = Collect(Alloc(heap, r, m), {r} \cup LogRefs(log'))

\* annual = calculate_annual_projection(monthly), called directly on the dict
\* the name monthly refers to.
CallAnnual(record) ==
    /\ monthly # NULL
    /\ record => Len(log) < MaxCalls
    /\ \E c \in {calculate_annual_projection(heap, monthly)} :
       /\ last' = "calculate_annual_projection"
       /\ raised' = "none"
       /\ annual' = c.ret
       /\ UNCHANGED <<args, monthly, tiles, results_df, cash_df>>
       /\ log' = IF record
                 THEN Append(log, [fn |-> "calculate_annual_projection",
                                   in |-> heap[monthly], arg |-> monthly,
                                   out |-> c.heap[c.ret], ret |-> c.ret])
                 ELSE log
       /\ heap' = Collect(c.heap, {monthly, c.ret} \cup LogRefs(log'))

\* The user sets one widget (or none) and Streamlit reruns the script with the
\* widget values it keeps.
Rerun ==
    \E f \in DOMAIN WidgetValues : \E v \in WidgetValues[f] :
        Main([args EXCEPT ![f] = v])

Next == Rerun

Spec == Init /\ [][Next]_vars

\* the two functions called directly on arbitrary arguments
InitFn ==
    /\ args \in CallArgs
    /\ heap = EmptyHeap
    /\ monthly = NULL
    /\ annual = NULL
    /\ tiles = <<>>
    /\ results_df = <<>>
    /\ cash_df = <<>>
    /\ raised = "none"
    /\ last = "init"
    /\ log = <<>>

NextFn ==
    \/ CallMonthly(args, FALSE)
    \/ CallAnnual(FALSE)

SpecFn == InitFn /\ [][NextFn]_vars

\* a session of recorded direct calls
NextCalls ==
    \/ \E a \in SessionArgs : CallMonthly(a, TRUE)
    \/ CallAnnual(TRUE)

SpecCalls == Init /\ [][NextCalls]_vars

----------------------------------------------------------------------------
(* Properties *)

\* the ranges the widgets of main enforce
NonNegative(a) == \A f \in DOMAIN a : RGe(a[f], Zero)

InRange(a) ==
    /\ NonNegative(a)
    /\ RLe(a.conversion_rate, Num(100))
    /\ RLe(a.purchase_price_ratio, Num(100))

\* C1: a call with monthly_traffic = 0 or conversion_rate = 0 and non-negative
\* inputs raises no ZeroDivisionError and returns orders, revenue,
\* gross_margin_rate, marketing_ratio and break_even all equal to 0.
C1_ZeroTrafficOrConversion ==
    (/\ last # "init"
     /\ NonNegative(args)
     /\ (args.monthly_traffic = Zero \/ args.conversion_rate = Zero))
    => /\ raised = "none"
       /\ monthly # NULL
       /\ heap[monthly]["orders"] = Zero
       /\ heap[monthly]["revenue"] = Zero
       /\ heap[monthly]["gross_margin_rate"] = Zero
       /\ heap[monthly]["marketing_ratio"] = Zero
       /\ heap[monthly]["break_even"] = Zero

C1_Witness ==
    /\ last = "calculate_monthly_metrics"
    /\ NonNegative(args)
    /\ args.monthly_traffic = Zero
    /\ args.conversion_rate = Num(2)
    /\ args.average_basket = Num(80)
    /\ args.marketing_budget = Num(300)
    /\ raised = "none"
    /\ monthly # NULL
    /\ heap[monthly]["revenue"] = Zero

\* C2: with annual_net_margin = 12 x monthly net_margin, the projection has
\* taxes = 0 when annual_net_margin <= 0 and taxes = 0.20 x annual_net_margin
\* otherwise, and net_profit = annual_net_margin - taxes; taxes is never
\* negative and a loss is passed through untaxed.
C2_Taxes ==
    annual # NULL =>
        LET anm == RMul(Num(12), heap[monthly]["net_margin"])
            an == heap[annual]
        IN /\ an["taxes"] = IF RLe(anm, Zero) THEN Zero ELSE RMul(Rat(20, 100), anm)
           /\ an["net_profit"] = RSub(anm, an["taxes"])
           /\ RGe(an["taxes"], Zero)
           /\ RLe(anm, Zero) => an["net_profit"] = anm

C2_Witness ==
    /\ last = "calculate_annual_projection"
    /\ annual # NULL
    /\ RLt(heap[monthly]["net_margin"], Zero)
    /\ heap[annual]["taxes"] = Zero
    /\ RLt(heap[annual]["net_profit"], Zero)

\* C3: the projection has exactly 13 fields: the 11 monthly fields, each 12 x
\* the monthly value (the two ratios and break_even included), plus taxes and
\* net_profit.
C3_AnnualFields ==
    annual # NULL =>
        /\ DOMAIN heap[monthly] = MonthlyKeys
        /\ Cardinality(MonthlyKeys) = 11
        /\ DOMAIN heap[annual] = MonthlyKeys \cup {"taxes", "net_profit"}
        /\ Cardinality(DOMAIN heap[annual]) = 13
        /\ \A k \in MonthlyKeys :
              heap[annual][k] = RMul(Num(12), heap[monthly][k])

C3_Witness ==
    /\ last = "calculate_annual_projection"
    /\ annual # NULL
    /\ args = Example
    /\ heap[annual]["gross_margin_rate"] = Rat(5907, 10)
    /\ heap[annual]["marketing_ratio"] = Num(225)
    /\ Cardinality(DOMAIN heap[annual]) = 13

\* C4: for in-range inputs revenue, purchase_cost, shipping_total,
\* shopify_fees, fixed_costs and break_even are all >= 0.
C4_NonNegativeCurrency ==
    (monthly # NULL /\ InRange(args)) =>
        \A k \in {"revenue", "purchase_cost", "shipping_total", "shopify_fees",
                  "fixed_costs", "break_even"} :
            RGe(heap[monthly][k], Zero)

\* in range, with a negative gross margin
C4_Witness ==
    /\ last = "calculate_monthly_metrics"
    /\ monthly # NULL
    /\ InRange(args)
    /\ args.purchase_price_ratio = Num(100)
    /\ RLt(heap[monthly]["gross_margin"], Zero)
    /\ RLt(heap[monthly]["gross_margin_rate"], Zero)
    /\ heap[monthly]["break_even"] = Zero

\* C5: for all inputs, fixed_costs = 32 + 200 + 1.25 + marketing_budget (a
\* function of marketing_budget alone) and net_margin = gross_margin -
\* fixed_costs.
C5_FixedCosts ==
    monthly # NULL =>
        /\ heap[monthly]["fixed_costs"] = RAdd(Rat(23325, 100), args.marketing_budget)
        /\ heap[monthly]["net_margin"] =
               RSub(heap[monthly]["gross_margin"], heap[monthly]["fixed_costs"])

\* an out-of-range call
C5_Witness ==
    /\ last = "calculate_monthly_metrics"
    /\ monthly # NULL
    /\ args.marketing_budget = Num(-300)
    /\ args.monthly_traffic = Num(-500)
    /\ heap[monthly]["fixed_costs"] = Rat(-6675, 100)

\* C6: the example inputs give orders 20, revenue 1600, purchase_cost 640,
\* shipping_total 120, shopify_fees 52.4, fixed_costs 533.25, gross_margin
\* 787.6, net_margin 254.35, and annually net_margin 3052.2, taxes 610.44,
\* net_profit 2441.76.
C6_Example ==
    (monthly # NULL /\ args = Example) =>
        /\ heap[monthly]["orders"] = Num(20)
        /\ heap[monthly]["revenue"] = Num(1600)
        /\ heap[monthly]["purchase_cost"] = Num(640)
        /\ heap[monthly]["shipping_total"] = Num(120)
        /\ heap[monthly]["shopify_fees"] = Rat(524, 10)
        /\ heap[monthly]["fixed_costs"] = Rat(53325, 100)
        /\ heap[monthly]["gross_margin"] = Rat(7876, 10)
        /\ heap[monthly]["net_margin"] = Rat(25435, 100)
        /\ annual # NULL =>
              /\ heap[annual]["net_margin"] = Rat(30522, 10)
              /\ heap[annual]["taxes"] = Rat(61044, 100)
              /\ heap[annual]["net_profit"] = Rat(244176, 100)

C6_Witness ==
    /\ last = "calculate_annual_projection"
    /\ args = Example
    /\ annual # NULL
    /\ heap[annual]["net_profit"] = Rat(244176, 100)

\* C7 as stated: the example inputs give gross_margin_rate 49.225,
\* marketing_ratio 18.75 and a break_even of 1083.42 at 2 decimals.
C7_Original ==
    (last = "main" /\ args = Example) =>
        /\ heap[monthly]["gross_margin_rate"] = Rat(49225, 1000)
        /\ heap[monthly]["marketing_ratio"] = Rat(1875, 100)
        /\ tiles.break_even = 108342

\* C7 (amended): the example inputs give gross_margin_rate 49.225,
\* marketing_ratio 18.75 and a break_even of 533.25 / 0.49225, which is
\* 1083.29 at 2 decimals.
C7_ExampleRatios ==
    (last = "main" /\ args = Example) =>
        /\ heap[monthly]["gross_margin_rate"] = Rat(49225, 1000)
        /\ heap[monthly]["marketing_ratio"] = Rat(1875, 100)
        /\ heap[monthly]["break_even"] = RDiv(Rat(53325, 100), Rat(49225, 100000))
        /\ tiles.break_even = 108329

C7_Witness ==
    /\ last = "main"
    /\ args = Example
    /\ raised = "none"
    /\ tiles.break_even = 108329
    /\ tiles.gross_margin_rate = 492

LogIndex == 1..Len(log)

\* C8: in a session of calls, two calls of the same function with identical
\* inputs (by value, or the same record passed again) return identical
\* outputs whatever was called in between; calculate_annual_projection
\* returns a record other than the one passed and leaves that one unchanged,
\* and every record returned keeps the value it was returned with.
C8_NoHiddenState ==
    /\ \A i, j \in LogIndex :
          (log[i].fn = log[j].fn /\ log[i].in = log[j].in)
              => log[i].out = log[j].out
    /\ \A i, j \in LogIndex :
          (/\ log[i].fn = "calculate_annual_projection"
           /\ log[j].fn = "calculate_annual_projection"
           /\ log[i].arg = log[j].arg)
              => log[i].out = log[j].out
    /\ \A i \in LogIndex :
          log[i].fn = "calculate_annual_projection"
              => /\ log[i].ret # log[i].arg
                 /\ heap[log[i].arg] = log[i].in
    /\ \A i \in LogIndex : heap[log[i].ret] = log[i].out

\* one record projected twice, then the first call repeated
C8_Witness ==
    /\ Len(log) = 4
    /\ log[1].fn = "calculate_monthly_metrics"
    /\ log[2].fn = "calculate_annual_projection"
    /\ log[3].fn = "calculate_annual_projection"
    /\ log[4].fn = "calculate_monthly_metrics"
    /\ log[2].arg = log[3].arg
    /\ log[2].ret # log[3].ret
    /\ log[2].out = log[3].out
    /\ log[1].in = log[4].in
    /\ log[1].out = log[4].out
    /\ log[1].ret # log[4].ret

\* C9: for in-range inputs with gross_margin_rate > 0, break_even x
\* (gross_margin_rate / 100) = fixed_costs, and revenue >= break_even exactly
\* when net_margin >= 0; with gross_margin_rate <= 0, break_even is 0.
C9_BreakEven ==
    (monthly # NULL /\ InRange(args)) =>
        LET m == heap[monthly]
        IN /\ RGt(m["gross_margin_rate"], Zero) =>
                /\ RMul(m["break_even"], RDiv(m["gross_margin_rate"], Num(100)))
                       = m["fixed_costs"]
                /\ RGe(m["revenue"], m["break_even"]) <=> RGe(m["net_margin"], Zero)
           /\ RLe(m["gross_margin_rate"], Zero) => m["break_even"] = Zero

\* in range, profitable: revenue above a positive break-even
C9_Witness ==
    /\ last = "calculate_monthly_metrics"
    /\ monthly # NULL
    /\ InRange(args)
    /\ RGt(heap[monthly]["gross_margin_rate"], Zero)
    /\ RGt(heap[monthly]["break_even"], Zero)
    /\ RGt(heap[monthly]["revenue"], heap[monthly]["break_even"])
    /\ RGt(heap[monthly]["net_margin"], Zero)

Montant(df, i) == df[i].montant

NetFigures ==
    /\ Montant(results_df, 6) = heap[annual]["net_margin"]
    /\ Montant(results_df, 8) = heap[annual]["net_profit"]
    /\ Montant(cash_df, 1) =
          RSub(RSub(args.initial_capital, args.initial_stock),
               RAdd(RAdd(RAdd(heap[monthly]["fixed_costs"], heap[monthly]["purchase_cost"]),
                         heap[monthly]["shipping_total"]), heap[monthly]["shopify_fees"]))
    /\ Montant(cash_df, 4) = RSub(Montant(cash_df, 2), Montant(cash_df, 3))

\* C10 as stated: in both tables the revenue line is >= 0, every cost line,
\* the annual cash outflows included, is <= 0, and net figures carry the sign
\* computed.
C10_Original ==
    (last = "main" /\ raised = "none") =>
        /\ RGe(Montant(results_df, 1), Zero)
        /\ \A i \in {2, 3, 4, 5, 7} : RLe(Montant(results_df, i), Zero)
        /\ RLe(Montant(cash_df, 3), Zero)
        /\ NetFigures

\* C10 (amended): in the profit-and-loss table the revenue line is >= 0 and
\* every cost line (goods, shipping, Shopify commissions, fixed charges,
\* taxes) is <= 0; in the cash-flow table the annual inflows and the annual
\* outflows are both shown as totals >= 0 (the outflows are strictly
\* positive); net figures carry the sign computed.
C10_SignConventions ==
    (last = "main" /\ raised = "none") =>
        /\ RGe(Montant(results_df, 1), Zero)
        /\ \A i \in {2, 3, 4, 5, 7} : RLe(Montant(results_df, i), Zero)
        /\ RGe(Montant(cash_df, 2), Zero)
        /\ RGt(Montant(cash_df, 3), Zero)
        /\ NetFigures

\* a run with sales: strictly negative cost lines, positive outflows
C10_Witness ==
    /\ last = "main"
    /\ raised = "none"
    /\ args = Example
    /\ Montant(results_df, 2) = Num(-7680)
    /\ RLt(Montant(results_df, 7), Zero)
    /\ RGt(Montant(cash_df, 3), Zero)

====
